---------------------------- MODULE Spec2Model ----------------------------
(***************************************************************************)
(* Model of the document-retrieval subsystem of supplychaingenai:          *)
(*   rag/document_processor.py  DocumentProcessor (chunking, ingestion)    *)
(*   rag/rag_handler.py         RAGHandler (dual-mode vector index)        *)
(*   rag/query_engine.py        QueryEngine (answer synthesis)             *)
(*                                                                         *)
(* Three specifications share the module:                                  *)
(*   SpecChunk  the loop of DocumentProcessor.chunk_text, one iteration    *)
(*              per step, on inputs drawn from bounded sets;               *)
(*   SpecResp   QueryEngine.generate_response as a function of its         *)
(*              context list;                                              *)
(*   Spec       one RAGHandler with its QueryEngine and the ingestion of   *)
(*              documents, against a remote index service.                 *)
(***************************************************************************)
EXTENDS Integers, Sequences, FiniteSets, TLC

VARIABLES
    \* ---- DocumentProcessor.chunk_text (SpecChunk) ----
    c_pc,        \* "call" | "loop" | "done" | "off"
    c_text,      \* the text argument, kept as runs <<character, length>>
    c_size,      \* chunk_size
    c_overlap,   \* the overlap argument
    c_ov,        \* the local overlap after the clamp of lines 112-113
    c_max,       \* self.max_chunks
    c_start,     \* start
    c_count,     \* count
    c_spans,     \* chunks, each kept as the pair <<start, end>> it was sliced with
    \* ---- QueryEngine.generate_response (SpecResp) ----
    g_pc,        \* "call" | "done" | "off"
    g_context,   \* the context argument, a sequence of texts
    g_answer,    \* the excerpts of the response, in order
    \* ---- DocumentProcessor.embed_chunks (SpecEmbed) ----
    e_pc,        \* "call" | "batch" | "single" | "done" | "off"
    e_chunks,    \* the chunks argument, a sequence of texts
    e_batch_fails, \* whether model.encode(chunks, batch_size=32) raises
    e_calls,     \* the calls of model.encode made so far: "batch", "single"
    e_out,       \* the embeddings collected so far
    \* ---- RAGHandler / QueryEngine / ingestion (Spec) ----
    h_pc,        \* "new" | "ready" | "raised" | "off"
    mock,        \* self.mock
    attrs,       \* the attributes __init__ has set on the handler
    mock_vectors,\* self.mock_vectors, a sequence of records
    svc,         \* the remote service: whether the index is known to exist, whether
                 \* this handler created it, whether it is ready for writes,
                 \* the dimension it was created with, and its records
    uuids,       \* number of uuid4() values drawn so far
    calls,       \* number of calls made on the handler
    last,        \* what the last call did: its name, inputs, result, exception
    \* ---- add_document and delete_document in two threads (SpecRace) ----
    r_add,       \* the adding thread: "call" | "append" | "done" | "off"
    r_del,       \* the deleting thread: "call" | "bind" | "done" | "off"
    r_store,     \* self.mock_vectors of the handler both threads use
    r_filtered,  \* the list the comprehension of line 272 has built
    r_x,         \* the text and metadata given to add_document
    r_y,         \* the id given to delete_document
    r_id,        \* doc_id of the adding thread
    \* ---- OrderManager over DatabaseHandler (SpecOrder) ----
    o_pc,        \* "ready" | "off"
    o_inventory, \* collections["inventory"]: quantity by product_id
    o_orders,    \* collections["orders"], a sequence of orders
    o_customers, \* collections["customers"]: order_history by customer id
    o_calls,     \* number of calls made on the order manager
    o_last       \* what the last call was given, found and returned

chunk_vars == <<c_pc, c_text, c_size, c_overlap, c_ov, c_max, c_start, c_count, c_spans>>
resp_vars  == <<g_pc, g_context, g_answer>>
embed_vars == <<e_pc, e_chunks, e_batch_fails, e_calls, e_out>>
rag_vars   == <<h_pc, mock, attrs, mock_vectors, svc, uuids, calls, last>>
race_vars  == <<r_add, r_del, r_store, r_filtered, r_x, r_y, r_id>>
order_vars == <<o_pc, o_inventory, o_orders, o_customers, o_calls, o_last>>
vars       == <<chunk_vars, resp_vars, embed_vars, rag_vars, race_vars, order_vars>>

----------------------------------------------------------------------------
\* Python helpers

Min(a, b) == IF a <= b THEN a ELSE b
Max(a, b) == IF a >= b THEN a ELSE b

\* A slice index as Python normalises it against a sequence of length n:
\* a negative index counts from the end, and the result is clipped to 0..n.
PyIndex(i, n) == IF i < 0 THEN Max(i + n, 0) ELSE Min(i, n)

\* text[start:end]
PySlice(text, start, end) ==
    LET s == PyIndex(start, Len(text))
        e == PyIndex(end, Len(text))
    IN  IF s < e THEN SubSeq(text, s + 1, e) ELSE <<>>

\* text.rfind(ch, start, end): the highest 0-based position of ch in
\* text[start:end], or -1.
RFind_FirstHit(text, ch, start, end) ==
    LET s == PyIndex(start, Len(text))
        e == PyIndex(end, Len(text))
        hits == {p \in s..(e - 1) : text[p + 1] = ch}
    IN  IF hits = {} THEN -1 ELSE CHOOSE p \in hits : \A q \in hits : p <= q

RFind(text, ch, start, end) ==
    LET s == PyIndex(start, Len(text))
        e == PyIndex(end, Len(text))
        hits == {p \in s..(e - 1) : text[p + 1] = ch}
    IN  IF hits = {} THEN -1 ELSE CHOOSE p \in hits : \A q \in hits : p >= q

----------------------------------------------------------------------------
\* DocumentProcessor.chunk_text

DefaultChunkSize == 1000
DefaultOverlap   == 200
DefaultMaxChunks == 5000

\* lines 112-113: an overlap that is not below chunk_size is halved
ClampOverlap(chunk_size, overlap) ==
    IF overlap >= chunk_size THEN Max(0, chunk_size \div 2) ELSE overlap

\* lines 119-131: where the window that starts at start ends
ChunkEnd(text, chunk_size, start) ==
    LET hard == Min(start + chunk_size, Len(text))
        newline_pos == RFind(text, "\n", start, hard)
        space_pos   == RFind(text, " ", start, hard)
    IN  IF hard < Len(text)
        THEN IF newline_pos > start THEN newline_pos + 1
             ELSE IF space_pos > start THEN space_pos + 1
             ELSE hard
        ELSE hard

\* a loop condition that lets one chunk past the cap through
ChunkLoopCond_PastCap(text, start, count, maxChunks) ==
    start < Len(text) /\ count <= maxChunks

\* line 118: the loop condition
ChunkLoopCond(text, start, count, maxChunks) ==
    start < Len(text) /\ count < maxChunks

\* line 137: the cursor of the next window
NextStart(end, overlap) == end - overlap

\* lines 117-140 run to completion: the list of <<start, end>> pairs
RECURSIVE ChunkLoop(_, _, _, _, _, _, _)
ChunkLoop(text, chunk_size, overlap, maxChunks, start, count, spans) ==
    IF ~ChunkLoopCond(text, start, count, maxChunks) THEN spans
    ELSE LET end == ChunkEnd(text, chunk_size, start)
         IN  IF end <= start THEN spans
             ELSE ChunkLoop(text, chunk_size, overlap, maxChunks,
                            NextStart(end, overlap), count + 1,
                            Append(spans, <<start, end>>))

\* chunk_text(text, chunk_size, overlap) of a processor whose cap is maxChunks
ChunkSpans(text, chunk_size, overlap, maxChunks) ==
    IF text = <<>> THEN <<>>
    ELSE ChunkLoop(text, chunk_size, ClampOverlap(chunk_size, overlap),
                   maxChunks, 0, 0, <<>>)

ChunkText(text, chunk_size, overlap, maxChunks) ==
    LET spans == ChunkSpans(text, chunk_size, overlap, maxChunks)
    IN  [i \in 1..Len(spans) |-> PySlice(text, spans[i][1], spans[i][2])]

\* ---- bounds of the inputs of SpecChunk ----
MaxTextLen   == 5
MaxChunkSize == 4
MaxCap       == 4

Alphabet == {"a", " ", "\n"}

RECURSIVE TextsOfLen(_)
TextsOfLen(n) ==
    IF n = 0 THEN {<<>>}
    ELSE {Append(t, ch) : t \in TextsOfLen(n - 1), ch \in Alphabet}

SmallTexts == UNION {TextsOfLen(n) : n \in 0..MaxTextLen}

\* A text is held in the state as its runs of equal characters;
\* TextOf gives the characters.
RECURSIVE TextOf(_)
TextOf(runs) ==
    IF runs = <<>> THEN <<>>
    ELSE [i \in 1..runs[1][2] |-> runs[1][1]] \o TextOf(Tail(runs))

RunsOf(text) == [i \in 1..Len(text) |-> <<text[i], 1>>]

\* the document of the 2,500-character scenario: two and a half windows
ScenarioLen  == 2 * DefaultChunkSize + DefaultChunkSize \div 2
ScenarioText == << <<"a", ScenarioLen>> >>

IsScenario ==
    /\ c_text = ScenarioText
    /\ c_size = DefaultChunkSize
    /\ c_max = DefaultMaxChunks

ChunkIdle ==
    /\ c_pc = "off" /\ c_text = <<>> /\ c_size = 1 /\ c_overlap = 0 /\ c_ov = 0
    /\ c_max = 1 /\ c_start = 0 /\ c_count = 0 /\ c_spans = <<>>

ChunkInit ==
    /\ c_pc = "call"
    /\ c_start = 0 /\ c_count = 0 /\ c_spans = <<>>
    /\ \/ /\ c_text \in {RunsOf(t) : t \in SmallTexts}
          /\ c_size \in 1..MaxChunkSize
          /\ c_overlap \in 0..MaxChunkSize
          /\ c_max \in 1..MaxCap
       \/ /\ c_text = ScenarioText
          /\ c_size = DefaultChunkSize
          /\ c_overlap = DefaultOverlap
          /\ c_max = DefaultMaxChunks
    /\ c_ov = c_overlap

\* lines 107-117: the empty text returns at once; otherwise the overlap is
\* clamped and the cursor and the counter start at 0
ChunkEnter ==
    /\ c_pc = "call"
    /\ UNCHANGED <<resp_vars, embed_vars, rag_vars, race_vars, order_vars>>
    /\ IF c_text = <<>>
       THEN c_pc' = "done" /\ UNCHANGED c_ov
       ELSE c_pc' = "loop" /\ c_ov' = ClampOverlap(c_size, c_overlap)
    /\ c_start' = 0 /\ c_count' = 0 /\ c_spans' = <<>>
    /\ UNCHANGED <<c_text, c_size, c_overlap, c_max>>

\* lines 118-138: one iteration of the loop
ChunkIter ==
    /\ c_pc = "loop"
    /\ UNCHANGED <<resp_vars, embed_vars, rag_vars, race_vars, order_vars>>
    /\ LET text == TextOf(c_text)
           end == ChunkEnd(text, c_size, c_start)
       IN  /\ ChunkLoopCond(text, c_start, c_count, c_max)
           /\ IF end <= c_start
              THEN c_pc' = "done" /\ UNCHANGED <<c_start, c_count, c_spans>>
              ELSE /\ c_spans' = Append(c_spans, <<c_start, end>>)
                   /\ c_start' = NextStart(end, c_ov)
                   /\ c_count' = c_count + 1
                   /\ c_pc' = "loop"
    /\ UNCHANGED <<c_text, c_size, c_overlap, c_ov, c_max>>

\* line 118 false, line 140: return chunks
ChunkExit ==
    /\ c_pc = "loop"
    /\ UNCHANGED <<resp_vars, embed_vars, rag_vars, race_vars, order_vars>>
    /\ ~ChunkLoopCond(TextOf(c_text), c_start, c_count, c_max)
    /\ c_pc' = "done"
    /\ UNCHANGED <<c_text, c_size, c_overlap, c_ov, c_max, c_start, c_count, c_spans>>

ChunkNext == ChunkEnter \/ ChunkIter \/ ChunkExit

----------------------------------------------------------------------------
\* QueryEngine.generate_response

PreviewLen == 300
MaxExcerpts == 3

Ellipsis == <<".", ".", ".">>

\* line 130: ctx[:300] + "..." if len(ctx) > 300 else ctx
Preview(ctx) ==
    IF Len(ctx) > PreviewLen THEN SubSeq(ctx, 1, PreviewLen) \o Ellipsis ELSE ctx

\* the distinct texts of a list, in order of first occurrence
RECURSIVE Distinct(_)
Distinct(seq) ==
    IF seq = <<>> THEN <<>>
    ELSE LET front == Distinct(SubSeq(seq, 1, Len(seq) - 1))
             x == seq[Len(seq)]
         IN  IF \E i \in 1..Len(front) : front[i] = x THEN front
             ELSE Append(front, x)

SeqRange(seq) == {seq[i] : i \in 1..Len(seq)}

\* every order in which the elements of a finite set can be listed
Listings(S) ==
    {f \in [1..Cardinality(S) -> S] : \A i, j \in 1..Cardinality(S) : f[i] = f[j] => i = j}

\* line 127: list(set(context)). A set of strings is iterated in the order of
\* its hash table, which the interpreter seeds per process: any listing of the
\* distinct texts can come out.
SetListings(context) == Listings(SeqRange(context))

NotFoundAnswer == [kind |-> "none_found", about |-> <<>>, excerpts |-> <<>>]
CannedAnswer   == [kind |-> "insufficient", about |-> <<>>, excerpts |-> <<>>]

\* lines 120-133, given the listing the set produced: the response is the
\* heading naming the query followed by "Document i: <preview>" for the first
\* three texts of the listing
GenerateResponse(query, context, listing) ==
    IF context = <<>> THEN NotFoundAnswer
    ELSE [kind |-> "documents",
          about |-> query,
          excerpts |-> [i \in 1..Min(MaxExcerpts, Len(listing)) |-> Preview(listing[i])]]

\* ---- inputs of SpecResp ----
MaxContext == 4
\* one character more than a preview holds
LongLen == PreviewLen + 1
LongText == [i \in 1..LongLen |-> "x"]
RespTexts == {<<"a">>, <<"b">>, <<"c">>, <<"d">>, LongText}
RespQuery == <<"q">>

RespIdle == g_pc = "off" /\ g_context = <<>> /\ g_answer = NotFoundAnswer

RespInit ==
    /\ g_pc = "call"
    /\ g_context \in UNION {[1..n -> RespTexts] : n \in 0..MaxContext}
    /\ g_answer = NotFoundAnswer

\* one call of generate_response(query, context)
RespCall ==
    /\ g_pc = "call"
    /\ UNCHANGED <<chunk_vars, embed_vars, rag_vars, race_vars, order_vars>>
    /\ \E listing \in SetListings(g_context) :
          g_answer' = GenerateResponse(RespQuery, g_context, listing)
    /\ g_pc' = "done"
    /\ UNCHANGED g_context

RespNext == RespCall

----------------------------------------------------------------------------
\* The embedding model (SentenceTransformer all-MiniLM-L6-v2)

\* The model ends in a normalisation layer: every embedding has the same
\* length.  Here the embeddings are the integer points of the circle of
\* radius 5, and a text is mapped to one of them by its characters.
Ring == << <<5, 0>>, <<4, 3>>, <<3, 4>>, <<0, 5>>, <<-3, 4>>, <<-4, 3>>,
           <<-5, 0>>, <<-4, -3>>, <<-3, -4>>, <<0, -5>>, <<3, -4>>, <<4, -3>> >>

Chars == <<"a", "b", "c", "d", "e", "f", "g", "h", "i", "j", "k", "l", "m",
           "n", "o", "p", "q", "r", "s", "t", "u", "v", "w", "x", "y", "z",
           " ", "\n", ".", "M", "P", "D", "F">>

CodeOf == [ch \in {Chars[i] : i \in 1..Len(Chars)} |->
              CHOOSE i \in 1..Len(Chars) : Chars[i] = ch]

Code(ch) == CodeOf[ch]

RECURSIVE CodeSum(_)
CodeSum(text) ==
    IF text = <<>> THEN 0 ELSE Code(text[1]) + CodeSum(Tail(text))

\* RAGHandler.embed_text: self.model.encode(text).tolist()
EmbedText(text) == Ring[(CodeSum(text) % Len(Ring)) + 1]

Dot(v1, v2) == v1[1] * v2[1] + v1[2] * v2[2]

Abs(x) == IF x < 0 THEN -x ELSE x

\* np.linalg.norm of an integer point whose length is an integer
Norm(v) ==
    CHOOSE n \in 0..(Abs(v[1]) + Abs(v[2])) : n * n = Dot(v, v)

\* RAGHandler._cosine_similarity, in hundredths
CosineSimilarity(vec1, vec2) ==
    (Dot(vec1, vec2) * 100) \div (Norm(vec1) * Norm(vec2))

----------------------------------------------------------------------------
\* Metadata mappings (Python dicts with string keys)

EmptyDict == <<>>

\* {**a, **b}, a.update(b): the keys of both, b winning
Merge(a, b) ==
    [k \in (DOMAIN a) \cup (DOMAIN b) |-> IF k \in DOMAIN b THEN b[k] ELSE a[k]]

HasKey(d, k) == k \in DOMAIN d

----------------------------------------------------------------------------
\* RAGHandler._initialize_mock_data
\* (each text is abbreviated to the term the document defines)

MockDocuments == <<
      [id |-> "doc1", text |-> <<"s", "c", "m">>,
       metadata |-> [type |-> "definition", topic |-> "supply chain"]],
      [id |-> "doc2", text |-> <<"a", "b", "c">>,
       metadata |-> [type |-> "definition", topic |-> "inventory management"]],
      [id |-> "doc3", text |-> <<"j", "i", "t">>,
       metadata |-> [type |-> "definition", topic |-> "inventory management"]],
      [id |-> "doc4", text |-> <<"e", "o", "q">>,
       metadata |-> [type |-> "definition", topic |-> "inventory management"]],
      [id |-> "doc5", text |-> <<"f", "i", "f", "o">>,
       metadata |-> [type |-> "definition", topic |-> "inventory management"]],
      [id |-> "doc6", text |-> <<"s", "a", "f", "e", "t", "y">>,
       metadata |-> [type |-> "definition", topic |-> "inventory management"]],
      [id |-> "doc7", text |-> <<"o", "r", "d", "e", "r">>,
       metadata |-> [type |-> "definition", topic |-> "order management"]],
      [id |-> "doc8", text |-> <<"a", "n", "a", "l", "y", "t", "i", "c", "s">>,
       metadata |-> [type |-> "definition", topic |-> "analytics"]],
      [id |-> "doc9", text |-> <<"s", "r", "m">>,
       metadata |-> [type |-> "definition", topic |-> "supplier management"]],
      [id |-> "doc10", text |-> <<"c", "r", "m">>,
       metadata |-> [type |-> "definition", topic |-> "customer management"]]
    >>

\* lines 125-134: one record per mock document, appended in order
MockData ==
    [i \in 1..Len(MockDocuments) |->
        [id |-> MockDocuments[i].id,
         vector |-> EmbedText(MockDocuments[i].text),
         metadata |-> Merge([text |-> MockDocuments[i].text],
                            MockDocuments[i].metadata)]]

----------------------------------------------------------------------------
\* Search

\* list.sort(key=score, reverse=True) is stable: among equal scores the
\* earlier element stays first.  One element is inserted behind every element
\* whose score is not smaller.
InsertDesc_BeforeEquals(sorted, x) ==
    LET ahead == {i \in 1..Len(sorted) : sorted[i].score > x.score}
        n == Cardinality(ahead)
    IN  SubSeq(sorted, 1, n) \o <<x>> \o SubSeq(sorted, n + 1, Len(sorted))

InsertDesc(sorted, x) ==
    LET ahead == {i \in 1..Len(sorted) : sorted[i].score >= x.score}
        n == Cardinality(ahead)
    IN  SubSeq(sorted, 1, n) \o <<x>> \o SubSeq(sorted, n + 1, Len(sorted))

RECURSIVE SortDesc(_)
SortDesc(seq) ==
    IF seq = <<>> THEN <<>>
    ELSE InsertDesc(SortDesc(SubSeq(seq, 1, Len(seq) - 1)), seq[Len(seq)])

\* similarities[:top_k]
Take(seq, n) == SubSeq(seq, 1, Min(Max(n, 0), Len(seq)))

\* RAGHandler._mock_search over the records of the local store
MockSearch(records, query_vector, top_k) ==
    LET similarities ==
            [i \in 1..Len(records) |->
                [id |-> records[i].id,
                 score |-> CosineSimilarity(query_vector, records[i].vector),
                 metadata |-> records[i].metadata]]
    IN  Take(SortDesc(similarities), top_k)

\* self.index.query(vector, top_k, include_metadata=True) answered by the
\* service: the top_k records by the index's metric (cosine)
RemoteQuery(records, query_vector, top_k) ==
    MockSearch(records, query_vector, top_k)

Ok(results) == [raised |-> "", results |-> results]
Raise(exc)  == [raised |-> exc, results |-> <<>>]

\* RAGHandler.search, once the handler exists.  fails: the index.query call
\* raises.  Reading self.mock_vectors raises AttributeError when __init__
\* never set it.
Search(query, top_k, fails) ==
    LET query_vector == EmbedText(query)
    IN  IF ~mock
        THEN IF ~fails
             THEN Ok(RemoteQuery(svc.records, query_vector, top_k))
             ELSE IF "mock_vectors" \in attrs
                  THEN Ok(MockSearch(mock_vectors, query_vector, top_k))
                  ELSE Raise("AttributeError")
        ELSE Ok(MockSearch(mock_vectors, query_vector, top_k))

----------------------------------------------------------------------------
\* Identifiers

UuidNames == <<"u1", "u2", "u3", "u4", "u5", "u6", "u7", "u8", "u9", "u10",
               "u11", "u12", "u13", "u14", "u15", "u16">>

\* (variant: the generator repeats itself)
Uuid4_Repeating(n) == UuidNames[((n - 1) % 2) + 1]

\* the n-th value str(uuid.uuid4()) returns: never one returned before
Uuid4(n) == UuidNames[n]

----------------------------------------------------------------------------
\* The stores

\* the position of the record with this id, or 0
IndexOfId(records, id) ==
    IF \E i \in 1..Len(records) : records[i].id = id
    THEN CHOOSE i \in 1..Len(records) : records[i].id = id
    ELSE 0

\* index.upsert([(id, vector, metadata)]) on the service: the record with
\* this id is replaced, a new id is added
Upsert(records, rec) ==
    IF IndexOfId(records, rec.id) = 0 THEN Append(records, rec)
    ELSE [records EXCEPT ![IndexOfId(records, rec.id)] = rec]

\* (variant: the list is cut at the record instead of filtered)
WithoutId_Truncating(records, doc_id) ==
    IF IndexOfId(records, doc_id) = 0 THEN records
    ELSE SubSeq(records, 1, IndexOfId(records, doc_id) - 1)

\* [doc for doc in records if doc["id"] != doc_id]
WithoutId(records, doc_id) ==
    LET Keep(r) == r.id # doc_id IN SelectSeq(records, Keep)

\* (variant: a text the caller's metadata carries is kept)
AddRecord_CallerTextWins(text, metadata, doc_id) ==
    [id |-> doc_id,
     vector |-> EmbedText(text),
     metadata |-> Merge([text |-> text], metadata)]

\* (variant: the identifier is derived from the text instead of drawn afresh)
AddRecord_ContentId(text, metadata, doc_id) ==
    [id |-> UuidNames[(CodeSum(text) % Len(UuidNames)) + 1],
     vector |-> EmbedText(text),
     metadata |-> Merge(metadata, [text |-> text])]

\* RAGHandler.add_document lines 159-174: the record that is written
AddRecord(text, metadata, doc_id) ==
    [id |-> doc_id,
     vector |-> EmbedText(text),
     metadata |-> Merge(metadata, [text |-> text])]

----------------------------------------------------------------------------
\* DocumentProcessor: files, extraction, process_document

MaxTextChars == 1000000

SupportedExtensions == {".txt", ".csv", ".pdf", ".docx", ".xlsx"}

\* str.lower() on the extensions that occur
Lower(ext) == CASE ext = ".TXT" -> ".txt"
                [] ext = ".PDF" -> ".pdf"
                [] OTHER -> ext

\* the files offered for ingestion: name, os.path.splitext(name)[1], content,
\* and whether open() and read() succeed on it
Files == {
    [name |-> "r.txt", ext |-> ".txt", content |-> <<"a", " ", "b">>, readable |-> TRUE],
    [name |-> "R.TXT", ext |-> ".TXT", content |-> <<"j", "i", "t">>, readable |-> TRUE],
    [name |-> "e.txt", ext |-> ".txt", content |-> <<>>, readable |-> TRUE],
    [name |-> "u.txt", ext |-> ".txt", content |-> <<"a">>, readable |-> FALSE],
    [name |-> "n.pdf", ext |-> ".pdf", content |-> <<"z", "z">>, readable |-> TRUE],
    [name |-> "x.exe", ext |-> ".exe", content |-> <<"a">>, readable |-> TRUE]}

NameChars(name) ==
    CASE name = "n.pdf" -> <<"n", ".", "p", "d", "f">>
      [] OTHER -> <<>>

MockPdfPrefix ==
    <<"M", "o", "c", "k", " ", "P", "D", "F", " ", "c", "o", "n", "t", "e", "n", "t">> \o
    <<" ", "f", "r", "o", "m", " ">>

\* DocumentProcessor.is_supported_file
IsSupportedFile(file) == Lower(file.ext) \in SupportedExtensions

\* DocumentProcessor.extract_text: .txt is read and cut to max_text_chars, and
\* an exception while reading is caught and answered with "" (lines 67-69);
\* .pdf yields the mock sentence naming the file; an unknown type yields ""
ExtractText(file) ==
    LET ext == Lower(file.ext)
    IN  CASE ext = ".txt" -> IF file.readable THEN Take(file.content, MaxTextChars)
                             ELSE <<>>
          [] ext = ".pdf" -> MockPdfPrefix \o NameChars(file.name)
          [] OTHER -> <<>>

\* (variant: no validation, every file is taken as text)
ProcessDocument_Unvalidated(file, metadata, maxChunks, first_uuid) ==
    LET chunks == ChunkText(file.content, DefaultChunkSize, DefaultOverlap, maxChunks)
    IN  [i \in 1..Len(chunks) |->
            [id |-> Uuid4(first_uuid + i),
             text |-> chunks[i],
             embedding |-> EmbedText(chunks[i]),
             metadata |-> Merge(metadata, [file_name |-> file.name,
                                           file_path |-> file.name,
                                           file_type |-> Lower(file.ext),
                                           chunk_index |-> i - 1])]]

\* DocumentProcessor.process_document: the chunks with their metadata; the
\* i-th chunk takes the (first_uuid + i)-th uuid
ProcessDocument(file, metadata, maxChunks, first_uuid) ==
    IF ~IsSupportedFile(file) THEN <<>>
    ELSE LET text == ExtractText(file)
             chunks == ChunkText(text, DefaultChunkSize, DefaultOverlap, maxChunks)
             base == Merge(metadata, [file_name |-> file.name,
                                      file_path |-> file.name,   \* the path, by its last part
                                      file_type |-> Lower(file.ext)])
         IN  IF text = <<>> THEN <<>>
             ELSE [i \in 1..Len(chunks) |->
                     [id |-> Uuid4(first_uuid + i),
                      text |-> chunks[i],
                      embedding |-> EmbedText(chunks[i]),
                      metadata |-> Merge(base, [chunk_index |-> i - 1])]]

----------------------------------------------------------------------------
\* One RAGHandler, its QueryEngine, and the ingestion of documents

\* ---- bounds ----
MaxCalls     == 2
MaxUuids     == 8
MaxTopK      == 2
MaxChunksCfg == 2

GetAnswerTopK == 3

UserTexts == {<<"j", "i", "t">>, <<"a", " ", "b">>}

\* metadata passed to add_document: none, that of test_upload.py, and one
\* that carries a text of its own
UserMetadata == {
    EmptyDict,
    [file_name |-> "test_document.txt", chunk_index |-> 0, topic |-> "resilience"],
    [text |-> <<"e", "o", "q">>]}

\* metadata passed to process_document: none, and that of the upload page
UploadMetadata == {
    EmptyDict,
    [filename |-> "upload", upload_date |-> "now"]}

NoLast ==
    [op |-> "none", raised |-> "", query |-> <<>>, top_k |-> 0,
     results |-> <<>>, answer |-> NotFoundAnswer, sources |-> <<>>,
     ids |-> <<>>, chunks |-> <<>>, given |-> EmptyDict, file |-> "",
     pre |-> <<>>, key |-> "", listed |-> FALSE, outcome |-> "",
     fails |-> FALSE, matches |-> <<>>, documents |-> <<>>,
     stored |-> <<>>]

\* the records of the index the handler writes to and reads from
Store == IF mock THEN mock_vectors ELSE svc.records

StoreIds(records) == {records[i].id : i \in 1..Len(records)}

RagIdle ==
    /\ h_pc = "off" /\ mock = FALSE /\ attrs = {} /\ mock_vectors = <<>>
    /\ svc = [exists |-> FALSE, created |-> FALSE, ready |-> FALSE,
             dimension |-> 0, records |-> <<>>]
    /\ uuids = 0 /\ calls = 0 /\ last = NoLast

RagInit ==
    /\ h_pc = "new"
    /\ mock = FALSE
    /\ attrs = {}
    /\ mock_vectors = <<>>
    /\ svc = [exists |-> FALSE, created |-> FALSE, ready |-> FALSE,
             dimension |-> 0, records |-> <<>>]
    /\ uuids = 0
    /\ calls = 0
    /\ last = NoLast

\* RAGHandler(mock=True), lines 15-23
ConstructMock ==
    /\ h_pc = "new"
    /\ UNCHANGED <<chunk_vars, resp_vars, embed_vars, race_vars, order_vars>>
    /\ h_pc' = "ready"
    /\ mock' = TRUE
    /\ attrs' = {"model", "mock", "mock_vectors", "index"}
    /\ mock_vectors' = MockData
    /\ last' = [NoLast EXCEPT !.op = "init", !.outcome = "mock"]
    /\ UNCHANGED <<svc, uuids, calls>>

\* lines 62-67: the fallback of __init__
Fallback ==
    /\ h_pc' = "ready"
    /\ mock' = TRUE
    /\ attrs' = {"model", "mock", "pc", "mock_vectors"}
    /\ mock_vectors' = MockData

\* line 60: self.index = self.pc.Index(index_name)
Connect ==
    /\ h_pc' = "ready"
    /\ mock' = FALSE
    /\ attrs' = {"model", "mock", "pc", "index"}
    /\ mock_vectors' = <<>>

\* __init__ stopped by the exception of line 30: no handler exists
InitRaises ==
    /\ h_pc' = "raised"
    /\ UNCHANGED <<mock, attrs, mock_vectors>>

\* line 37: the dimension the index is created with
IndexDimension == 384

\* RAGHandler(mock=False, api_key=...), lines 24-67.  api_key: what the
\* argument or PINECONE_API_KEY gives ("" when neither is set); listed: whether
\* list_indexes() names the index (it may have been created before this
\* process ran); outcome: which call to the service fails, if any.  After
\* create_index the code sleeps ten seconds (lines 54-57) and connects; whether
\* the service has finished building the index by then is the service's choice.
ConstructRemote(api_key, listed, outcome) ==
    /\ h_pc = "new"
    /\ UNCHANGED <<chunk_vars, resp_vars, embed_vars, race_vars, order_vars>>
    /\ LET tried == [NoLast EXCEPT !.op = "init", !.key = api_key]
           done == [tried EXCEPT !.listed = listed, !.outcome = outcome]
       IN  IF api_key = ""
           THEN /\ InitRaises /\ UNCHANGED svc
                /\ last' = [tried EXCEPT !.raised = "ValueError"]
           ELSE IF api_key = "invalid" \/ outcome = "list_fails"
           THEN Fallback /\ UNCHANGED svc
                /\ last' = [tried EXCEPT !.outcome = "list_fails"]
           ELSE IF ~listed
           THEN IF outcome = "create_fails"
                THEN Fallback /\ UNCHANGED svc /\ last' = done
                ELSE /\ Connect /\ last' = done
                     /\ \E r \in BOOLEAN :
                          svc' = [svc EXCEPT !.exists = TRUE, !.created = TRUE,
                                             !.dimension = IndexDimension,
                                             !.ready = r]
           ELSE /\ Connect /\ last' = done
                /\ svc' = [svc EXCEPT !.exists = TRUE, !.ready = TRUE]
    /\ UNCHANGED <<uuids, calls>>

\* the service finishes building the index that create_index asked for
IndexReady ==
    /\ svc.exists /\ ~svc.ready
    /\ UNCHANGED <<chunk_vars, resp_vars, embed_vars, race_vars, order_vars>>
    /\ svc' = [svc EXCEPT !.ready = TRUE]
    /\ UNCHANGED <<h_pc, mock, attrs, mock_vectors, uuids, calls, last>>

ApiKeys  == {"", "invalid", "valid"}
Outcomes == {"ok", "list_fails", "create_fails"}

CanCall == h_pc = "ready" /\ calls < MaxCalls

\* whether index.query raises is the service's choice; there is no such call
\* in Local mode
QueryFailures == IF mock THEN {FALSE} ELSE BOOLEAN

\* the largest top_k the handler itself asks for (get_all_documents)
ListTopK == 10000

\* top_k values passed to search (the service refuses top_k < 1) and to
\* process_query; ListTopK asks for every record
TopKs == (IF mock THEN 0..MaxTopK ELSE 1..MaxTopK) \cup {ListTopK}
QueryTopKs == 1..MaxTopK

\* RAGHandler.add_document(text, metadata)
AddDocument(text, metadata) ==
    /\ CanCall
    /\ UNCHANGED <<chunk_vars, resp_vars, embed_vars, race_vars, order_vars>>
    /\ uuids < MaxUuids
    /\ LET doc_id == Uuid4(uuids + 1)
           rec == AddRecord(text, metadata, doc_id)
       IN  /\ IF ~mock
              THEN /\ svc' = [svc EXCEPT !.records = Upsert(svc.records, rec)]
                   /\ UNCHANGED mock_vectors
              ELSE /\ mock_vectors' = Append(mock_vectors, rec)
                   /\ UNCHANGED svc
           /\ last' = [NoLast EXCEPT !.op = "add", !.ids = <<doc_id>>,
                                     !.query = text, !.given = metadata,
                                     !.pre = Store]
    /\ uuids' = uuids + 1
    /\ calls' = calls + 1
    /\ UNCHANGED <<h_pc, mock, attrs>>

\* RAGHandler.delete_document(doc_id)
DeleteDocument(doc_id) ==
    /\ CanCall
    /\ UNCHANGED <<chunk_vars, resp_vars, embed_vars, race_vars, order_vars>>
    /\ IF ~mock
       THEN /\ svc' = [svc EXCEPT !.records = WithoutId(svc.records, doc_id)]
            /\ UNCHANGED mock_vectors
       ELSE /\ mock_vectors' = WithoutId(mock_vectors, doc_id)
            /\ UNCHANGED svc
    /\ last' = [NoLast EXCEPT !.op = "delete", !.ids = <<doc_id>>, !.pre = Store]
    /\ calls' = calls + 1
    /\ UNCHANGED <<h_pc, mock, attrs, uuids>>

\* RAGHandler.search(query, top_k)
SearchCall(query, top_k, fails) ==
    /\ CanCall
    /\ UNCHANGED <<chunk_vars, resp_vars, embed_vars, race_vars, order_vars>>
    /\ LET r == Search(query, top_k, fails)
       IN  last' = [NoLast EXCEPT !.op = "search", !.raised = r.raised,
                                  !.results = r.results, !.query = query,
                                  !.top_k = top_k, !.fails = fails]
    /\ calls' = calls + 1
    /\ UNCHANGED <<h_pc, mock, attrs, mock_vectors, svc, uuids>>

\* metadata.get(key, default)
Get(d, k, default) == IF HasKey(d, k) THEN d[k] ELSE default

ListPreviewLen == 100

\* lines 365-372: the library entry of one match
DocInfo(match) ==
    LET text == Get(match.metadata, "text", <<>>)
    IN  [id |-> match.id,
         name |-> Get(match.metadata, "file_name", "Unknown Document"),
         type |-> Get(match.metadata, "file_type", "Unknown"),
         uploaded |-> Get(match.metadata, "upload_date", "Unknown"),
         size |-> Get(match.metadata, "file_size", "Unknown"),
         text_preview |-> IF text # <<>> THEN Take(text, ListPreviewLen) \o Ellipsis
                          ELSE <<>>]

\* (variant: a later entry of a name replaces the earlier one)
RECURSIVE UniqueDocuments_KeepsLast(_, _, _)
UniqueDocuments_KeepsLast(documents, seen_names, unique_documents) ==
    IF documents = <<>> THEN unique_documents
    ELSE LET doc == Head(documents)
         IN  IF doc.name \in seen_names
             THEN UniqueDocuments_KeepsLast(
                      Tail(documents), seen_names,
                      [i \in 1..Len(unique_documents) |->
                          IF unique_documents[i].name = doc.name THEN doc
                          ELSE unique_documents[i]])
             ELSE UniqueDocuments_KeepsLast(Tail(documents), seen_names \cup {doc.name},
                                            Append(unique_documents, doc))

\* lines 376-381: the entries whose name was not seen before, in order
RECURSIVE UniqueDocuments(_, _, _)
UniqueDocuments(documents, seen_names, unique_documents) ==
    IF documents = <<>> THEN unique_documents
    ELSE LET doc == Head(documents)
         IN  IF doc.name \in seen_names
             THEN UniqueDocuments(Tail(documents), seen_names, unique_documents)
             ELSE UniqueDocuments(Tail(documents), seen_names \cup {doc.name},
                                  Append(unique_documents, doc))

\* lines 390-399: the library of a handler without a service
MockLibrary ==
    << [id |-> "mock_1", name |-> "Sample Document.pdf", type |-> "PDF",
        uploaded |-> "2023-07-10", size |-> "1.2 MB",
        text_preview |-> <<"s", "a", "m", "p", "l", "e">> \o Ellipsis] >>

Reverse(seq) == [i \in 1..Len(seq) |-> seq[Len(seq) + 1 - i]]

\* the orders in which the service lists records for the all-zero query
\* vector, to which every record is equally near
BackendOrders == {"stored", "reversed"}

\* index.query(vector=dummy_vector, top_k, include_metadata=True), lines 351-358
DummyQuery(records, top_k, order) ==
    LET all == [i \in 1..Len(records) |->
                   [id |-> records[i].id, score |-> 0, metadata |-> records[i].metadata]]
    IN  Take(IF order = "stored" THEN all ELSE Reverse(all), top_k)

\* RAGHandler.get_all_documents().  fails: describe_index_stats or query raises.
GetAllDocuments(fails, order) ==
    /\ CanCall
    /\ UNCHANGED <<chunk_vars, resp_vars, embed_vars, race_vars, order_vars>>
    /\ LET base == [NoLast EXCEPT !.op = "list", !.fails = fails]
           total_vectors == Len(svc.records)
           matches == DummyQuery(svc.records, Min(total_vectors, ListTopK), order)
           documents == [i \in 1..Len(matches) |-> DocInfo(matches[i])]
       IN  IF ~mock /\ "index" \in attrs
           THEN IF fails \/ total_vectors = 0
                THEN last' = base
                ELSE last' = [base EXCEPT !.matches = matches,
                                          !.documents = UniqueDocuments(documents, {}, <<>>)]
           ELSE last' = [base EXCEPT !.documents = MockLibrary]
    /\ calls' = calls + 1
    /\ UNCHANGED <<h_pc, mock, attrs, mock_vectors, svc, uuids>>

\* QueryEngine._generate_response_from_docs lines 66-83
Contexts(docs) ==
    LET WithText(d) == HasKey(d.metadata, "text")
        kept == SelectSeq(docs, WithText)
    IN  [i \in 1..Len(kept) |-> kept[i].metadata["text"]]

SourcesOf(docs) ==
    LET Named(d) == HasKey(d.metadata, "file_name")
        kept == SelectSeq(docs, Named)
    IN  [i \in 1..Len(kept) |->
            [file_name |-> kept[i].metadata["file_name"],
             relevance |-> kept[i].score]]

\* RAGHandler.get_answer(query): lines 287-305.  A non-empty result list
\* reaches line 296, which reads result["text"] of a result that has the keys
\* id, score and metadata only.
GetAnswer(query, fails) ==
    LET r == Search(query, GetAnswerTopK, fails)
    IN  IF r.raised # "" THEN [raised |-> r.raised, answer |-> NotFoundAnswer, sources |-> <<>>]
        ELSE IF r.results = <<>>
        THEN [raised |-> "", answer |-> CannedAnswer, sources |-> <<>>]
        ELSE [raised |-> "KeyError", answer |-> NotFoundAnswer, sources |-> <<>>]

\* QueryEngine.process_query(query, top_k)
ProcessQuery(query, top_k, fails1, fails2) ==
    /\ CanCall
    /\ UNCHANGED <<chunk_vars, resp_vars, embed_vars, race_vars, order_vars>>
    /\ LET r == Search(query, top_k, fails1)
           base == [NoLast EXCEPT !.op = "query", !.query = query,
                                  !.top_k = top_k, !.results = r.results]
       IN  IF r.raised # ""
           THEN last' = [base EXCEPT !.raised = r.raised]
           ELSE IF r.results # <<>> /\ ~mock
           THEN \E listing \in SetListings(Contexts(r.results)) :
                   last' = [base EXCEPT
                              !.answer = GenerateResponse(query, Contexts(r.results), listing),
                              !.sources = SourcesOf(r.results)]
           ELSE LET a == GetAnswer(query, fails2)
                IN  last' = [base EXCEPT !.raised = a.raised,
                                         !.answer = a.answer,
                                         !.sources = a.sources]
    /\ calls' = calls + 1
    /\ UNCHANGED <<h_pc, mock, attrs, mock_vectors, svc, uuids>>

\* the records add_document writes for the chunks, one after the other
RECURSIVE AddAll(_, _, _)
AddAll(records, chunks, first_uuid) ==
    IF chunks = <<>> THEN records
    ELSE LET rec == AddRecord(chunks[1].text, chunks[1].metadata, Uuid4(first_uuid + 1))
         IN  AddAll(IF ~mock THEN Upsert(records, rec) ELSE Append(records, rec),
                    Tail(chunks), first_uuid + 1)

\* Ingestion of one document into the handler at hand: a DocumentProcessor is
\* made (it reads MAX_CHUNKS, here maxChunks), process_document is called, then
\* add_document for every chunk (the loop of app.py lines 1264-1278)
Ingest(file, metadata, maxChunks) ==
    /\ CanCall
    /\ UNCHANGED <<chunk_vars, resp_vars, embed_vars, race_vars, order_vars>>
    /\ LET chunks == ProcessDocument(file, metadata, maxChunks, uuids)
           n == Len(chunks)
       IN  /\ uuids + 2 * n <= MaxUuids
           /\ IF ~mock
              THEN /\ svc' = [svc EXCEPT !.records = AddAll(svc.records, chunks, uuids + n)]
                   /\ UNCHANGED mock_vectors
              ELSE /\ mock_vectors' = AddAll(mock_vectors, chunks, uuids + n)
                   /\ UNCHANGED svc
           /\ uuids' = uuids + 2 * n
           /\ last' = [NoLast EXCEPT !.op = "ingest", !.file = file.name,
                                     !.given = metadata, !.chunks = chunks,
                                     !.ids = [i \in 1..n |-> Uuid4(uuids + n + i)],
                                     !.pre = Store]
    /\ calls' = calls + 1
    /\ UNCHANGED <<h_pc, mock, attrs>>

\* The upload page, app.py lines 1263-1278, while the application's query
\* engine (app.py line 49) is in Local mode.  The page makes a handler of its
\* own with RAGHandler(mock=False); in the environment that made the query
\* engine's handler fall back this one falls back too, to a fresh list of the
\* seeded documents, takes the chunks, and is dropped when the page returns:
\* last.stored is its list at that moment.  In Remote mode the new handler
\* connects to the same index and the flow is Ingest.
Upload(file, metadata, maxChunks) ==
    /\ CanCall /\ mock /\ "pc" \in attrs
    /\ UNCHANGED <<chunk_vars, resp_vars, embed_vars, race_vars, order_vars>>
    /\ LET chunks == ProcessDocument(file, metadata, maxChunks, uuids)
           n == Len(chunks)
       IN  /\ uuids + 2 * n <= MaxUuids
           /\ uuids' = uuids + 2 * n
           /\ last' = [NoLast EXCEPT !.op = "upload", !.file = file.name,
                                     !.given = metadata, !.chunks = chunks,
                                     !.ids = [i \in 1..n |-> Uuid4(uuids + n + i)],
                                     !.pre = MockData,
                                     !.stored = AddAll(MockData, chunks, uuids + n)]
    /\ calls' = calls + 1
    /\ UNCHANGED <<h_pc, mock, attrs, mock_vectors, svc>>

\* the ids delete_document is called with: the oldest and the newest record
\* of the index, one of the seeded documents, and an id no record has
DeleteIds(records) ==
    (IF records = <<>> THEN {} ELSE {records[1].id, records[Len(records)].id})
        \cup {"doc2", "absent"}

RagNext ==
    \/ ConstructMock
    \/ \E k \in ApiKeys, l \in BOOLEAN, o \in Outcomes : ConstructRemote(k, l, o)
    \/ IndexReady
    \/ \E t \in UserTexts, m \in UserMetadata : AddDocument(t, m)
    \/ \E d \in DeleteIds(Store) : DeleteDocument(d)
    \/ \E q \in UserTexts, k \in TopKs, f \in QueryFailures : SearchCall(q, k, f)
    \/ \E q \in UserTexts, k \in QueryTopKs, f1 \in QueryFailures, f2 \in QueryFailures :
          ProcessQuery(q, k, f1, f2)
    \/ \E f \in Files, m \in UploadMetadata, c \in 1..MaxChunksCfg : Ingest(f, m, c)
    \/ \E f \in Files, m \in UploadMetadata, c \in 1..MaxChunksCfg : Upload(f, m, c)
    \/ \E f \in QueryFailures, o \in BackendOrders : GetAllDocuments(f, o)

----------------------------------------------------------------------------
\* DocumentProcessor.embed_chunks

\* ---- inputs of SpecEmbed ----
MaxEmbedChunks == 3

EmbedTexts == {<<"j", "i", "t">>, <<"a", " ", "b">>, <<"e", "o", "q">>}

RECURSIVE ChunkLists(_)
ChunkLists(n) ==
    IF n = 0 THEN {<<>>}
    ELSE {Append(l, t) : l \in ChunkLists(n - 1), t \in EmbedTexts}

\* line 157: self.model.encode(chunks, batch_size=32).tolist()
EncodeBatch(chunks) == [i \in 1..Len(chunks) |-> EmbedText(chunks[i])]

\* (variant: the fallback encodes the first chunk for every position)
EncodeOne_First(chunks, i) == EmbedText(chunks[1])

\* line 160: self.model.encode(chunk).tolist() for the i-th chunk
EncodeOne(chunks, i) == EmbedText(chunks[i])

EmbedIdle ==
    /\ e_pc = "off" /\ e_chunks = <<>> /\ e_batch_fails = FALSE
    /\ e_calls = <<>> /\ e_out = <<>>

EmbedInit ==
    /\ e_pc = "call"
    /\ e_chunks \in UNION {ChunkLists(n) : n \in 0..MaxEmbedChunks}
    /\ e_batch_fails \in BOOLEAN
    /\ e_calls = <<>>
    /\ e_out = <<>>

\* lines 152-153: no chunks, no call of the model
EmbedEnter ==
    /\ e_pc = "call"
    /\ UNCHANGED <<chunk_vars, resp_vars, rag_vars, race_vars, order_vars>>
    /\ e_pc' = IF e_chunks = <<>> THEN "done" ELSE "batch"
    /\ UNCHANGED <<e_chunks, e_batch_fails, e_calls, e_out>>

\* lines 156-158: the batched call; its exception is caught
EmbedBatch ==
    /\ e_pc = "batch"
    /\ UNCHANGED <<chunk_vars, resp_vars, rag_vars, race_vars, order_vars>>
    /\ e_calls' = Append(e_calls, "batch")
    /\ IF e_batch_fails
       THEN e_pc' = "single" /\ UNCHANGED e_out
       ELSE e_pc' = "done" /\ e_out' = EncodeBatch(e_chunks)
    /\ UNCHANGED <<e_chunks, e_batch_fails>>

\* lines 159-160: one step of the per-chunk list comprehension
EmbedSingle ==
    /\ e_pc = "single"
    /\ UNCHANGED <<chunk_vars, resp_vars, rag_vars, race_vars, order_vars>>
    /\ e_calls' = Append(e_calls, "single")
    /\ e_out' = Append(e_out, EncodeOne(e_chunks, Len(e_out) + 1))
    /\ e_pc' = IF Len(e_out) + 1 = Len(e_chunks) THEN "done" ELSE "single"
    /\ UNCHANGED <<e_chunks, e_batch_fails>>

EmbedNext == EmbedEnter \/ EmbedBatch \/ EmbedSingle

----------------------------------------------------------------------------
\* RAGHandler.add_document and RAGHandler.delete_document called by two
\* threads on one Local-mode handler, with no lock.  Each thread runs its
\* statements in order; the interpreter may switch threads between any two
\* steps.  The assignment of line 272 is two steps: the comprehension reads the
\* list and builds a new one, then the attribute is bound to the new list.

\* ---- bounds ----
MaxRaceDocs == 2

\* the store the two calls start from: the first seeded documents
RaceStores == {SubSeq(MockData, 1, k) : k \in 0..MaxRaceDocs}

RaceIdle ==
    /\ r_add = "off" /\ r_del = "off" /\ r_store = <<>> /\ r_filtered = <<>>
    /\ r_x = [text |-> <<>>, metadata |-> EmptyDict] /\ r_y = "" /\ r_id = ""

RaceInit ==
    /\ r_add = "call" /\ r_del = "call"
    /\ r_store \in RaceStores
    /\ r_filtered = <<>>
    /\ r_x \in [text : UserTexts, metadata : UserMetadata]
    /\ r_y \in DeleteIds(r_store)
    /\ r_id = ""

\* add_document lines 159-165: the id, the vector and the metadata, all local
AddPrepare ==
    /\ r_add = "call"
    /\ UNCHANGED <<chunk_vars, resp_vars, embed_vars, rag_vars, order_vars>>
    /\ r_id' = Uuid4(1)
    /\ r_add' = "append"
    /\ UNCHANGED <<r_del, r_store, r_filtered, r_x, r_y>>

\* add_document lines 170-176: self.mock_vectors.append(...) and the return
AddAppend ==
    /\ r_add = "append"
    /\ UNCHANGED <<chunk_vars, resp_vars, embed_vars, rag_vars, order_vars>>
    /\ r_store' = Append(r_store, AddRecord(r_x.text, r_x.metadata, r_id))
    /\ r_add' = "done"
    /\ UNCHANGED <<r_del, r_filtered, r_x, r_y, r_id>>

\* delete_document line 272, right-hand side: the list without doc_id
DeleteRead ==
    /\ r_del = "call"
    /\ UNCHANGED <<chunk_vars, resp_vars, embed_vars, rag_vars, order_vars>>
    /\ r_filtered' = WithoutId(r_store, r_y)
    /\ r_del' = "bind"
    /\ UNCHANGED <<r_add, r_store, r_x, r_y, r_id>>

\* delete_document line 272, the assignment, and the return of line 274
DeleteBind ==
    /\ r_del = "bind"
    /\ UNCHANGED <<chunk_vars, resp_vars, embed_vars, rag_vars, order_vars>>
    /\ r_store' = r_filtered
    /\ r_del' = "done"
    /\ UNCHANGED <<r_add, r_filtered, r_x, r_y, r_id>>

RaceNext == AddPrepare \/ AddAppend \/ DeleteRead \/ DeleteBind

----------------------------------------------------------------------------
\* OrderManager (src/models/order.py) over the in-memory collections of
\* DatabaseHandler (src/database/db_handler.py).  An order id "ORD-n" is kept
\* as the number n, a price as cents.  Dates, addresses and the cancellation
\* reason are left out of the records.

\* ---- bounds ----
MaxItems      == 2
MaxOrderCalls == 2

\* line 36: order_id = f"ORD-{12350 + order_count}"
OrderIdBase == 12350

\* db_handler.py lines 49-60: the products and their prices
ProductPrice ==
    [P001 |-> 69999, P002 |-> 129999, P003 |-> 12999, P004 |-> 1999,
     P005 |-> 4999, P006 |-> 8999, P007 |-> 6999, P008 |-> 1299,
     P009 |-> 1599, P010 |-> 3499]
Products == DOMAIN ProductPrice

\* db_handler.py lines 63-74: one inventory record per product
MockInventory ==
    [P001 |-> 45, P002 |-> 20, P003 |-> 8, P004 |-> 150, P005 |-> 75,
     P006 |-> 0, P007 |-> 12, P008 |-> 30, P009 |-> 5, P010 |-> 18]

OrderItem(product_id, quantity) ==
    [product_id |-> product_id, quantity |-> quantity,
     price |-> ProductPrice[product_id]]

\* db_handler.py lines 77-117
MockOrders == <<
    [id |-> 12345, customer_id |-> "C001", status |-> "In Transit",
     items |-> <<OrderItem("P001", 2), OrderItem("P003", 1)>>,
     total_amount |-> 152997],
    [id |-> 12346, customer_id |-> "C002", status |-> "Processing",
     items |-> <<OrderItem("P002", 1), OrderItem("P010", 2)>>,
     total_amount |-> 136997],
    [id |-> 12347, customer_id |-> "C003", status |-> "Delivered",
     items |-> <<OrderItem("P004", 3), OrderItem("P005", 1)>>,
     total_amount |-> 10996] >>

\* db_handler.py lines 166-191: order_history by customer
MockCustomers ==
    [C001 |-> <<12345>>, C002 |-> <<12346>>, C003 |-> <<12347>>]

\* db.find_one("orders", {"id": order_id}): the position of the first order
\* with that id, 0 when there is none
FindOrder(orders, order_id) ==
    LET hits == {i \in 1..Len(orders) : orders[i].id = order_id}
    IN  IF hits = {} THEN 0 ELSE CHOOSE i \in hits : \A j \in hits : i <= j

\* create_order lines 42-67: the items are taken in order; an unknown product
\* or a short stock returns None on the spot, otherwise the quantity is taken
\* out of the inventory before the next item is looked at
RECURSIVE TakeItems(_, _, _, _)
TakeItems(inventory, items, order_items, total_amount) ==
    IF items = <<>>
    THEN [ok |-> TRUE, inventory |-> inventory, order_items |-> order_items,
          total_amount |-> total_amount]
    ELSE LET item == Head(items)
             failed == [ok |-> FALSE, inventory |-> inventory,
                        order_items |-> order_items, total_amount |-> total_amount]
         IN  IF item.product_id \notin Products THEN failed
             ELSE IF item.product_id \notin DOMAIN inventory
                     \/ inventory[item.product_id] < item.quantity THEN failed
             ELSE TakeItems([inventory EXCEPT ![item.product_id] = @ - item.quantity],
                            Tail(items),
                            Append(order_items, OrderItem(item.product_id, item.quantity)),
                            total_amount + ProductPrice[item.product_id] * item.quantity)

\* cancel_order lines 149-156: every item's quantity goes back to the inventory
RECURSIVE ReturnItems(_, _)
ReturnItems(inventory, items) ==
    IF items = <<>> THEN inventory
    ELSE LET item == Head(items)
         IN  ReturnItems(IF item.product_id \in DOMAIN inventory
                         THEN [inventory EXCEPT ![item.product_id] = @ + item.quantity]
                         ELSE inventory,
                         Tail(items))

NoOrderCall ==
    [op |-> "none", result |-> "none", order_id |-> 0, items |-> <<>>,
     status |-> "", inventory |-> MockInventory, orders |-> MockOrders]

OrderIdle ==
    /\ o_pc = "off" /\ o_inventory = MockInventory /\ o_orders = MockOrders
    /\ o_customers = MockCustomers /\ o_calls = 0 /\ o_last = NoOrderCall

\* DatabaseHandler() and OrderManager(db), app.py lines 40-45
OrderInit ==
    /\ o_pc = "ready" /\ o_inventory = MockInventory /\ o_orders = MockOrders
    /\ o_customers = MockCustomers /\ o_calls = 0 /\ o_last = NoOrderCall

\* the calls made on the order manager
CustomerIds == {"C001", "C404"}
ItemChoices ==
    [product_id : {"P001", "P003", "P404"}, quantity : {1, 9}]
ItemLists ==
    UNION {[1..n -> ItemChoices] : n \in 0..MaxItems}
OrderIds(orders) == {orders[i].id : i \in 1..Len(orders)} \cup {OrderIdBase - 1}
Statuses == {"Shipped", "Delivered"}

\* the record of a call: what it was given and the collections it found
OrderCall(op, order_id, items) ==
    [NoOrderCall EXCEPT !.op = op, !.order_id = order_id, !.items = items,
                        !.inventory = o_inventory, !.orders = o_orders]

\* OrderManager.create_order(customer_id, items, shipping_address).
\* day_fits: whether today's day of the month plus 7 is a day of this month;
\* when it is not, datetime.replace of line 75 raises ValueError
CreateOrder(customer_id, items, day_fits) ==
    /\ o_pc = "ready" /\ o_calls < MaxOrderCalls
    /\ UNCHANGED <<chunk_vars, resp_vars, embed_vars, rag_vars, race_vars>>
    /\ LET order_id == OrderIdBase + Len(o_orders)
           taken == TakeItems(o_inventory, items, <<>>, 0)
           order == [id |-> order_id, customer_id |-> customer_id,
                     status |-> "Processing", items |-> taken.order_items,
                     total_amount |-> taken.total_amount]
           call == OrderCall("create", order_id, items)
       IN  /\ o_inventory' = taken.inventory
           /\ IF ~taken.ok
              THEN /\ o_last' = [call EXCEPT !.result = "None"]
                   /\ UNCHANGED <<o_orders, o_customers>>
              ELSE IF ~day_fits
              THEN /\ o_last' = [call EXCEPT !.result = "ValueError"]
                   /\ UNCHANGED <<o_orders, o_customers>>
              ELSE /\ o_last' = [call EXCEPT !.result = "order"]
                   /\ o_orders' = Append(o_orders, order)
                   /\ o_customers' =
                        IF customer_id \in DOMAIN o_customers
                        THEN [o_customers EXCEPT ![customer_id] = Append(@, order_id)]
                        ELSE o_customers
    /\ o_calls' = o_calls + 1
    /\ UNCHANGED o_pc

\* OrderManager.update_order_status(order_id, status)
UpdateOrderStatus(order_id, status) ==
    /\ o_pc = "ready" /\ o_calls < MaxOrderCalls
    /\ UNCHANGED <<chunk_vars, resp_vars, embed_vars, rag_vars, race_vars>>
    /\ LET i == FindOrder(o_orders, order_id)
           call == [OrderCall("update", order_id, <<>>) EXCEPT !.status = status]
       IN  IF i = 0
           THEN /\ o_last' = [call EXCEPT !.result = "False"]
                /\ UNCHANGED o_orders
           ELSE /\ o_last' = [call EXCEPT !.result = "True"]
                /\ o_orders' = [o_orders EXCEPT ![i].status = status]
    /\ o_calls' = o_calls + 1
    /\ UNCHANGED <<o_pc, o_inventory, o_customers>>

\* OrderManager.cancel_order(order_id, reason)
CancelOrder(order_id) ==
    /\ o_pc = "ready" /\ o_calls < MaxOrderCalls
    /\ UNCHANGED <<chunk_vars, resp_vars, embed_vars, rag_vars, race_vars>>
    /\ LET i == FindOrder(o_orders, order_id)
           call == OrderCall("cancel", order_id, <<>>)
       IN  IF i = 0
           THEN /\ o_last' = [call EXCEPT !.result = "False"]
                /\ UNCHANGED <<o_orders, o_inventory>>
           ELSE IF o_orders[i].status = "Delivered"
           THEN /\ o_last' = [call EXCEPT !.result = "False",
                                          !.status = o_orders[i].status]
                /\ UNCHANGED <<o_orders, o_inventory>>
           ELSE /\ o_last' = [call EXCEPT !.result = "True",
                                          !.status = o_orders[i].status,
                                          !.items = o_orders[i].items]
                /\ o_inventory' = ReturnItems(o_inventory, o_orders[i].items)
                /\ o_orders' = [o_orders EXCEPT ![i].status = "Cancelled"]
    /\ o_calls' = o_calls + 1
    /\ UNCHANGED <<o_pc, o_customers>>

OrderNext ==
    \/ \E c \in CustomerIds, items \in ItemLists, d \in BOOLEAN : CreateOrder(c, items, d)
    \/ \E o \in OrderIds(o_orders), st \in Statuses : UpdateOrderStatus(o, st)
    \/ \E o \in OrderIds(o_orders) : CancelOrder(o)

----------------------------------------------------------------------------
\* Specifications

Init == RagInit /\ ChunkIdle /\ RespIdle /\ EmbedIdle /\ RaceIdle /\ OrderIdle
Next == RagNext
Spec == Init /\ [][Next]_vars

InitChunk == ChunkInit /\ RespIdle /\ EmbedIdle /\ RagIdle /\ RaceIdle /\ OrderIdle
NextChunk == ChunkNext
SpecChunk == InitChunk /\ [][NextChunk]_vars
\* the texts of the termination check: the scenario and the short texts
MaxFairTextLen == 3
InitChunkFair ==
    InitChunk /\ (c_text = ScenarioText \/ Len(TextOf(c_text)) <= MaxFairTextLen)
\* chunk_text is sequential code: a call that can take its next step takes it
SpecChunkFair == InitChunkFair /\ [][NextChunk]_vars /\ WF_vars(NextChunk)

InitResp == RespInit /\ ChunkIdle /\ EmbedIdle /\ RagIdle /\ RaceIdle /\ OrderIdle
NextResp == RespNext
SpecResp == InitResp /\ [][NextResp]_vars

InitEmbed == EmbedInit /\ ChunkIdle /\ RespIdle /\ RagIdle /\ RaceIdle /\ OrderIdle
NextEmbed == EmbedNext
SpecEmbed == InitEmbed /\ [][NextEmbed]_vars

InitRace == RaceInit /\ ChunkIdle /\ RespIdle /\ EmbedIdle /\ RagIdle /\ OrderIdle
NextRace == RaceNext
SpecRace == InitRace /\ [][NextRace]_vars

InitOrder == OrderInit /\ ChunkIdle /\ RespIdle /\ EmbedIdle /\ RagIdle /\ RaceIdle
NextOrder == OrderNext
SpecOrder == InitOrder /\ [][NextOrder]_vars

----------------------------------------------------------------------------
\* Properties

\* ---- chunk_text ----

c_len == Len(TextOf(c_text))

\* the i-th chunk's span as the slice reads it: positions s..e-1 of the text
SpanOf(i) == <<PyIndex(c_spans[i][1], c_len), PyIndex(c_spans[i][2], c_len)>>

\* the spans start at 0, leave no gap and reach the end of the text
Covers ==
    \/ c_text = <<>>
    \/ /\ c_spans # <<>>
       /\ SpanOf(1)[1] = 0
       /\ \A i \in 1..(Len(c_spans) - 1) : SpanOf(i + 1)[1] <= SpanOf(i)[2]
       /\ \E i \in 1..Len(c_spans) : SpanOf(i)[2] = c_len

\* C4: for every text and every chunk_size and overlap with
\* 0 <= overlap < chunk_size, chunk_text returns at most max_chunks chunks and
\* their spans start at 0, leave no gap and reach len(T).  (Stated for the
\* caps that cannot be what cuts the text short: a cursor that moves forward
\* by one character per chunk needs no more than len(T) chunks.)
C4_ChunksCoverText ==
    (c_pc = "done" /\ 0 <= c_overlap /\ c_overlap < c_size /\ c_max >= c_len)
        => (Len(c_spans) <= c_max /\ Covers)

\* C5: no chunk is emitted after a chunk that ended at the last character; the
\* 2,500-character text with chunk_size 1000, overlap 200 and the default cap
\* yields exactly 3 chunks, which cover the text.
C5_ScenarioThreeChunks ==
    (IsScenario /\ c_overlap = DefaultOverlap)
        => /\ Cardinality({i \in 1..Len(c_spans) : c_spans[i][2] = c_len}) <= 1
           /\ c_pc = "done" => (Len(c_spans) = 3 /\ Covers)

\* ---- construction ----

\* the last call was RAGHandler(mock=False) and the service could not be set
\* up: no key, the listing failed (as it does with an invalid key), or the
\* creation of the index failed
RemoteInitFailed ==
    /\ last.op = "init" /\ last.outcome # "mock"
    /\ \/ last.key = ""
       \/ last.outcome = "list_fails"
       \/ (~last.listed /\ last.outcome = "create_fails")

\* a handler that __init__ put into Local mode after trying the service
FellBack == h_pc = "ready" /\ mock /\ "pc" \in attrs

HoldsIngested(records) ==
    \E i \in 1..Len(records) : HasKey(records[i].metadata, "file_path")

\* C1: with mock=False and an invalid, non-empty credential construction ends
\* in Local mode, and process_query after an ingest on that handler returns an
\* answer with sources and raises nothing.
C1_InvalidKeyRoundTrip ==
    /\ (last.op = "init" /\ last.outcome # "mock" /\ last.key = "invalid")
          => (last.raised = "" /\ h_pc = "ready" /\ mock)
    /\ (FellBack /\ last.op = "query" /\ HoldsIngested(mock_vectors))
          => (last.raised = "" /\ last.answer.kind \in {"documents", "insufficient"})

\* C2: construction with mock=False never raises when the service cannot be
\* set up (no API key, listing or creation failing): it ends with mock = True
\* and the local store initialised.
C2_ConstructionNeverRaises ==
    RemoteInitFailed
        => (last.raised = "" /\ h_pc = "ready" /\ mock /\ mock_vectors = MockData)

\* ---- search ----

\* C3: in Remote mode, when index.query raises, search returns the Local-mode
\* search over the local records and raises nothing.
C3_QueryFailureFallsBack ==
    (last.op = "search" /\ ~mock /\ last.fails)
        => /\ last.raised = ""
           /\ last.results = MockSearch(mock_vectors, EmbedText(last.query), last.top_k)

ScoreIn(records, id, query) ==
    CosineSimilarity(EmbedText(query), records[IndexOfId(records, id)].vector)

\* result a comes before result b: higher score, or equal score and inserted earlier
Before(records, a, b) ==
    \/ a.score > b.score
    \/ a.score = b.score /\ IndexOfId(records, a.id) < IndexOfId(records, b.id)

\* C6: the Local-mode search returns min(top_k, records) results, by
\* non-increasing score, equal scores in insertion order; the results are the
\* stored records that come first in that order, so the same query on the
\* same store gives the same sequence.
C6_LocalSearchOrdered ==
    (last.op = "search" /\ mock)
        => LET r == last.results
               got == StoreIds(r)
           IN  /\ last.raised = ""
               /\ Len(r) = Min(last.top_k, Len(mock_vectors))
               /\ \A i \in 1..Len(r) :
                     /\ IndexOfId(mock_vectors, r[i].id) # 0
                     /\ r[i].score = ScoreIn(mock_vectors, r[i].id, last.query)
                     /\ r[i].metadata = mock_vectors[IndexOfId(mock_vectors, r[i].id)].metadata
               /\ \A i \in 1..(Len(r) - 1) : r[i].score >= r[i + 1].score
               /\ \A i, j \in 1..Len(r) : i < j => Before(mock_vectors, r[i], r[j])
               /\ \A i \in 1..Len(r), j \in 1..Len(mock_vectors) :
                     mock_vectors[j].id \notin got
                        => Before(mock_vectors, r[i],
                                  [id |-> mock_vectors[j].id,
                                   score |-> ScoreIn(mock_vectors, mock_vectors[j].id, last.query)])

\* a Local-mode search that cut the list and returned two results of equal score
C6_Witness ==
    /\ last.op = "search" /\ mock
    /\ Len(last.results) >= 2
    /\ Len(last.results) < Len(mock_vectors)
    /\ last.results[1].score = last.results[2].score

\* C7: on an index without records search returns [] and process_query
\* returns the insufficient-information answer with no sources, in Local and
\* in Remote mode, raising nothing.
C7_EmptyIndex ==
    (h_pc = "ready" /\ Store = <<>>)
        => /\ last.op = "search" => (last.raised = "" /\ last.results = <<>>)
           /\ last.op = "query"
                 => (last.raised = "" /\ last.answer = CannedAnswer /\ last.sources = <<>>)

\* ---- answers ----

IsSourceOf(src, result) ==
    /\ {"id", "score", "metadata"} \subseteq DOMAIN src
    /\ src["id"] = result.id
    /\ src["score"] = result.score
    /\ src["metadata"] = result.metadata

\* C8: when retrieval is not empty, the sources of the answer are the
\* retrieved results, one entry each, in retrieval order, with id, score and
\* metadata, with or without a file_name.
C8_SourcesAreResults ==
    (last.op = "query" /\ last.raised = "" /\ last.results # <<>>)
        => /\ Len(last.sources) = Len(last.results)
           /\ \A i \in 1..Len(last.sources) : IsSourceOf(last.sources[i], last.results[i])

\* C9: the answer is built from the first min(3, u) distinct context texts in
\* retrieval order, each cut to the preview length; the same list gives the
\* same answer.
C9_FirstThreeDistinct ==
    (g_pc = "done" /\ g_context # <<>>)
        => LET u == Distinct(g_context)
           IN  g_answer.excerpts = [i \in 1..Min(MaxExcerpts, Len(u)) |-> Preview(u[i])]

\* ---- ingestion ----

FileNamed(name) == CHOOSE f \in Files : f.name = name

LastFile == FileNamed(last.file)

\* C11: process_document on a file with an unsupported extension, or on a
\* supported file whose extracted text is empty, returns [] and raises
\* nothing, and the ingestion stores no record: the index is unchanged.
C11_SkippedFileStoresNothing ==
    (last.op = "ingest" /\ (~IsSupportedFile(LastFile) \/ ExtractText(LastFile) = <<>>))
        => /\ last.raised = ""
           /\ last.chunks = <<>>
           /\ last.ids = <<>>
           /\ Store = last.pre

\* an unsupported file was offered to an index that holds records
C11_Witness ==
    /\ last.op = "ingest"
    /\ ~IsSupportedFile(LastFile)
    /\ LastFile.content # <<>>
    /\ Store # <<>>

\* C19: when reading the document fails during extraction, the failure
\* reaches the caller of the ingestion and no record of the document is stored.
C19_ReadErrorPropagates ==
    (last.op = "ingest" /\ IsSupportedFile(LastFile) /\ ~LastFile.readable)
        => /\ last.raised # ""
           /\ Store = last.pre

\* ---- add, search, delete ----

\* the ids add_document has returned
AddedIds == {UuidNames[i] : i \in 1..Len(UuidNames)}

\* C12: after add_document(text, metadata) returned d, and until d is
\* deleted, a search with top_k at least the number of stored records returns
\* a result with id d whose metadata holds the text and the caller's fields.
C12_AddedIsFound ==
    /\ last.op = "add"
          => \E i \in 1..Len(Store) :
                /\ Store[i].id = last.ids[1]
                /\ Store[i].metadata["text"] = last.query
                /\ \A k \in DOMAIN last.given \ {"text"} :
                      HasKey(Store[i].metadata, k) /\ Store[i].metadata[k] = last.given[k]
    /\ (last.op = "search" /\ last.top_k >= Len(Store))
          => \A i \in 1..Len(Store) :
                Store[i].id \in AddedIds
                   => /\ last.raised = ""
                      /\ \E j \in 1..Len(last.results) :
                            /\ last.results[j].id = Store[i].id
                            /\ last.results[j].metadata = Store[i].metadata

\* how many records of the store carry this id
CountOfId(records, id) == Cardinality({i \in 1..Len(records) : records[i].id = id})

Without(records, p) == SubSeq(records, 1, p - 1) \o SubSeq(records, p + 1, Len(records))

\* C14: in Local mode delete_document(id) leaves no record with that id and
\* leaves every other record, in the same order; with no such record the store
\* is unchanged; nothing is raised.
C14_LocalDeleteFrame ==
    (last.op = "delete" /\ mock)
        => LET d == last.ids[1]
               p == IndexOfId(last.pre, d)
           IN  /\ last.raised = ""
               /\ CountOfId(mock_vectors, d) = 0
               /\ mock_vectors = IF p = 0 THEN last.pre ELSE Without(last.pre, p)

\* a record between two others was deleted from the Local store
C14_Witness ==
    /\ last.op = "delete" /\ mock
    /\ IndexOfId(last.pre, last.ids[1]) > 1
    /\ IndexOfId(last.pre, last.ids[1]) < Len(last.pre)
    /\ Len(mock_vectors) = Len(last.pre) - 1

\* the record carries the text it was embedded from under the key text
HoldsItsText(rec) ==
    /\ HasKey(rec.metadata, "text")
    /\ rec.vector = EmbedText(rec.metadata["text"])

C16_ModeIndependentAnswer ==
    (last.op = "query" /\ mock)
        => LET docs == RemoteQuery(mock_vectors, EmbedText(last.query), last.top_k)
           IN  /\ last.raised = ""
               /\ last.results = docs
               /\ docs # <<>>
                     => /\ last.answer.kind = "documents"
                        /\ Len(last.sources) = Len(SourcesOf(docs))

\* the file names of the records that have one
FileNames(records) ==
    {records[i].metadata["file_name"] :
        i \in {j \in 1..Len(records) : HasKey(records[j].metadata, "file_name")}}

\* C17: in Local mode get_all_documents lists the files of the records the
\* local store holds, one entry per file name: an ingested document is in
\* the library, and an empty store gives an empty list.
C17_LocalLibraryListsStore ==
    (last.op = "list" /\ mock)
        => /\ \A n \in FileNames(mock_vectors) :
                 Cardinality({i \in 1..Len(last.documents) : last.documents[i].name = n}) = 1
           /\ mock_vectors = <<>> => last.documents = <<>>

\* the position of the first match with this name
FirstNamed(matches, name) ==
    CHOOSE i \in 1..Len(matches) :
        /\ DocInfo(matches[i]).name = name
        /\ \A j \in 1..(i - 1) : DocInfo(matches[j]).name # name

\* C18: in Remote mode get_all_documents returns no two entries of the same
\* name: for every name among the matches of the backend the result holds
\* exactly the first match of that name, and the entries keep the backend's
\* order.
C18_RemoteLibraryFirstPerName ==
    (last.op = "list" /\ ~mock)
        => LET m == last.matches
               d == last.documents
           IN  /\ last.raised = ""
               /\ \A i, j \in 1..Len(d) : d[i].name = d[j].name => i = j
               /\ \A i \in 1..Len(m) :
                     \E k \in 1..Len(d) :
                        d[k] = DocInfo(m[FirstNamed(m, DocInfo(m[i]).name)])
               /\ \A k \in 1..Len(d) :
                     \E i \in 1..Len(m) : d[k].id = m[i].id
               /\ \A k, l \in 1..Len(d) :
                     k < l => FirstNamed(m, d[k].name) < FirstNamed(m, d[l].name)

\* the backend returned two chunks of one file, the later chunk first
C18_Witness ==
    /\ last.op = "list" /\ ~mock
    /\ Len(last.matches) >= 2
    /\ Len(last.documents) < Len(last.matches)
    /\ HasKey(last.matches[1].metadata, "chunk_index")
    /\ last.matches[1].metadata["chunk_index"] > 0
    /\ last.documents[1].id = last.matches[1].id

\* ---- embed_chunks ----

\* C20: embed_chunks returns one vector per chunk, the i-th being the
\* embedding of chunk i, whether the batched call succeeds or fails; the
\* batched call comes first, per-chunk calls are made only after it failed,
\* and its failure is not raised.
C20_OneVectorPerChunk ==
    /\ e_pc \in {"off", "call", "batch", "single", "done"}
    /\ \A i \in 1..Len(e_calls) : e_calls[i] = (IF i = 1 THEN "batch" ELSE "single")
    /\ Len(e_calls) > 1 => e_batch_fails
    /\ e_pc = "done"
          => /\ Len(e_out) = Len(e_chunks)
             /\ \A i \in 1..Len(e_chunks) : e_out[i] = EmbedText(e_chunks[i])
             /\ e_chunks # <<>> => e_calls # <<>>

\* the batched call failed and different chunks were embedded one by one
C20_Witness ==
    /\ e_pc = "done" /\ e_batch_fails
    /\ Len(e_chunks) >= 2
    /\ Len(e_out) = Len(e_chunks)
    /\ e_out[1] # e_out[2]

\* ---- chunk_text: the loop ----

ValidOverlap == 0 <= c_overlap /\ c_overlap < c_size

\* the start cursor after the i-th chunk was appended
StartAfter(i) == IF i < Len(c_spans) THEN c_spans[i + 1][1] ELSE c_start

\* C22: in every iteration the start cursor of the next window is strictly
\* greater than that of the current window and is never negative, for every
\* text and 0 <= overlap < chunk_size.
C22_CursorAdvances ==
    (c_pc \in {"loop", "done"} /\ ValidOverlap)
        => /\ c_start >= 0
           /\ \A i \in 1..Len(c_spans) : c_spans[i][1] >= 0 /\ StartAfter(i) > c_spans[i][1]

\* C24: every chunk returned is a non-empty contiguous slice of the text of
\* length at most chunk_size, for every text and 0 <= overlap < chunk_size.
C24_ChunksNonEmptyBounded ==
    (c_pc = "done" /\ ValidOverlap)
        => LET chunks == ChunkText(TextOf(c_text), c_size, c_overlap, c_max)
           IN  /\ Len(chunks) = Len(c_spans)
               /\ \A i \in 1..Len(chunks) :
                     /\ chunks[i] # <<>>
                     /\ Len(chunks[i]) <= c_size
                     /\ chunks[i] = SubSeq(TextOf(c_text), SpanOf(i)[1] + 1, SpanOf(i)[2])

\* C23: every call of chunk_text returns; when it has returned, the cursor is
\* at or past the end of the text or max_chunks chunks were produced (never
\* more), the text being empty the only other case; the cap is a plain return
C23_Terminates ==
    /\ <>(c_pc = "done")
    /\ [](c_pc = "done" =>
            /\ Len(c_spans) = c_count /\ c_count <= c_max
            /\ \/ c_text = <<>>
               \/ c_start >= c_len
               \/ c_count = c_max)

\* the cap cut the call short: the cursor had not reached the end of the text
C23_Witness ==
    c_pc = "done" /\ c_count = c_max /\ c_start < c_len /\ c_start > 0

\* ---- chunk_text: where a window ends ----
\* the positions after the window's first character and before its hard edge
\* that hold ch (0-based)
BreaksIn(text, ch, start, hard) ==
    {p \in 0..(hard - 1) : p > start /\ text[p + 1] = ch}
SetMax(S) == CHOOSE x \in S : \A y \in S : y <= x
NaturalEnd(text, start, hard) ==
    IF BreaksIn(text, "\n", start, hard) # {}
    THEN SetMax(BreaksIn(text, "\n", start, hard)) + 1
    ELSE IF BreaksIn(text, " ", start, hard) # {}
    THEN SetMax(BreaksIn(text, " ", start, hard)) + 1
    ELSE hard

\* C25: a window whose hard edge start + chunk_size lies inside the text ends
\* just after its last newline behind the first character, else just after its
\* last space behind the first character, else at the hard edge
C25_BreakPreference ==
    \A i \in 1..Len(c_spans) :
        LET start == c_spans[i][1]
            hard == start + c_size
        IN  hard < c_len => c_spans[i][2] = NaturalEnd(TextOf(c_text), start, hard)

\* ---- Remote mode: readiness of the index ----
\* a step in which the handler sends records to the remote index
RemoteWrite ==
    /\ h_pc = "ready" /\ ~mock
    /\ calls' = calls + 1
    /\ last'.op \in {"add", "ingest"}
    /\ last'.ids # <<>>

\* C21: in Remote mode a write goes to the index only when the service has
\* the index ready, and an index created at construction has the embedder's
\* dimension
C21_NoWriteBeforeReady ==
    [][RemoteWrite => (svc.ready /\ (svc.created => svc.dimension = IndexDimension))]_vars

\* ---- the ids of ingested chunks ----
\* C27: after an ingestion every chunk that process_document returned is in
\* the index under the id process_document gave it
C27_StoredUnderChunkId ==
    last.op = "ingest"
        => \A i \in 1..Len(last.chunks) :
              /\ last.ids[i] = last.chunks[i].id
              /\ \E j \in 1..Len(Store) :
                    /\ Store[j].id = last.chunks[i].id
                    /\ Store[j].metadata["text"] = last.chunks[i].text

\* ---- the upload page and the query engine ----
\* what the query engine's handler finds when it is asked for every record
FoundIds(query) ==
    LET r == Search(query, ListTopK, FALSE).results
    IN  {r[j].id : j \in 1..Len(r)}

\* C26: in Local mode every chunk the upload page stored is among the records
\* the query engine's handler holds and searches
C26_UploadedIsRetrievable ==
    (last.op = "upload" /\ mock)
        => \A i \in 1..Len(last.ids) :
              /\ last.ids[i] \in StoreIds(last.stored)
              /\ last.ids[i] \in StoreIds(mock_vectors)
              /\ \A q \in UserTexts : last.ids[i] \in FoundIds(q)

C29_FailedOrderChangesNothing ==
    (o_last.op = "create" /\ o_last.result = "None")
        => /\ o_inventory = o_last.inventory
           /\ o_orders = o_last.orders

\* C30: cancel_order on an order that was already Cancelled returns False and
\* leaves every inventory quantity as it was
C30_CancelledOnce ==
    (o_last.op = "cancel" /\ o_last.status = "Cancelled")
        => /\ o_last.result = "False"
           /\ o_inventory = o_last.inventory

============================================================================
